---- MODULE Spec2Model ----
(***************************************************************************)
(* Model of src/leerdatos.py: main() loads a CSV of advertising campaigns  *)
(* into a DataFrame and runs, in a fixed order, the grouped aggregations,  *)
(* the KPI computation, the top/bottom rankings, the missing-value check,  *)
(* the recommendations and three chart steps.                              *)
(*                                                                         *)
(* Numbers.  Cells of float columns are integers in units of 0.001; cells  *)
(* of integer columns are plain integers.  A missing cell (pandas NaN) is  *)
(* NaN for numeric columns and NA for text columns.  Computed floats       *)
(* (means, the margin) are exact rationals or one of nan, inf, -inf.       *)
(***************************************************************************)
EXTENDS Integers, Sequences, FiniteSets, TLC

VARIABLES file, df, pc, n, out, ran, error

vars == <<file, df, pc, n, out, ran, error>>

(***************************** bounds **************************************)
\* longest dataset drawn from the catalogue of rows
MaxLen == 3
\* length of the datasets with pairwise distinct ROAS
RankLen == 6
\* largest n passed to campanas_top / campanas_bottom called on their own
MaxN == 4

(***************************** cells ***************************************)
\* a missing numeric cell; every present numeric cell is >= 0
NaN == -1
\* a missing text cell
NA == "<NA>"
\* float cells are counted in thousandths
Milli == 1000
\* main() asks for the 3 best and the 3 worst campaigns
DefaultN == 3
\* decimals kept by .round(2), in units of 0.001
RoundStep == 10
\* thresholds of recomendaciones
RoasThreshold == 5
ConversionThreshold == 3

StrCols == {"campana_id", "plataforma", "tipo_campana", "audiencia_objetivo"}
IntCols == {"impresiones", "clicks", "conversiones"}
FloatCols == {"presupuesto_diario", "costo_total", "revenue_generado",
              "ctr", "conversion_rate", "cpc", "cpa", "roas"}
Columns == StrCols \cup IntCols \cup FloatCols

\* df.isnull() on one cell
IsNull(r, c) == IF c \in StrCols THEN r[c] = NA ELSE r[c] = NaN

(***************************** floats **************************************)
Abs(x) == IF x < 0 THEN 0 - x ELSE x

RECURSIVE GCD(_, _)
GCD(a, b) == IF b = 0 THEN a ELSE GCD(b, a % b)

\* a finite float, kept as a reduced fraction num/den with den > 0
Num(a, b) ==
    LET g == GCD(Abs(a), b)
    IN  [k |-> "num", num |-> a \div g, den |-> b \div g]
FNaN == [k |-> "nan", num |-> 0, den |-> 1]
FInf == [k |-> "inf", num |-> 0, den |-> 1]
FNegInf == [k |-> "-inf", num |-> 0, den |-> 1]

IsNum(x) == x.k = "num"
\* an operation that raises gives the name of its exception instead
Raised(x) == x.k \notin {"num", "nan", "inf", "-inf"}

\* GreaterThan with a fault: the comparison written >=
GreaterOrEqual(x, c, unit) ==
    \/ x.k = "inf"
    \/ x.k = "num" /\ x.num >= c * unit * x.den

\* x > c for a float x and an integer c (in the units of x scaled by unit);
\* every comparison with nan is False
GreaterThan(x, c, unit) ==
    \/ x.k = "inf"
    \/ x.k = "num" /\ x.num > c * unit * x.den

\* x < y on finite floats
FLess(x, y) == x.num * y.den < y.num * x.den

\* Divide with a fault: the division of Python numbers, which raises on a
\* zero divisor
DividePython(a, b) ==
    IF b = 0 THEN [k |-> "ZeroDivisionError", num |-> 0, den |-> 1]
    ELSE IF b > 0 THEN Num(a, b) ELSE Num(0 - a, 0 - b)

\* numpy true division a / b of two sums: no exception, a zero divisor
\* gives nan, inf or -inf
Divide(a, b) ==
    IF b # 0 THEN IF b > 0 THEN Num(a, b) ELSE Num(0 - a, 0 - b)
    ELSE IF a = 0 THEN FNaN
    ELSE IF a > 0 THEN FInf ELSE FNegInf

\* x * 100
Times100(x) == IF IsNum(x) THEN Num(x.num * 100, x.den) ELSE x

\* round-half-even of a/b to an integer, b > 0, a >= 0
RoundHalfEven(a, b) ==
    LET q == a \div b
        r == a % b
    IN  IF 2 * r < b THEN q
        ELSE IF 2 * r > b THEN q + 1
        ELSE IF q % 2 = 0 THEN q ELSE q + 1

\* .round(2) of an integer cell sum counted in thousandths
Round2Int(x) == RoundStep * RoundHalfEven(x, RoundStep)
\* .round(2) of a mean counted in thousandths
Round2(x) ==
    IF IsNum(x) THEN Num(RoundStep * RoundHalfEven(x.num, x.den * RoundStep), 1)
    ELSE x

(***************************** datasets ************************************)
\* text values in the order pandas sorts them (groupby sorts its keys)
Plataformas == <<"Facebook Ads", "Instagram Ads", "LinkedIn Ads", "TikTok Ads">>
Tipos == <<"Awareness", "Conversion", "Traffic">>
Audiencias == <<"18-24", "25-34", "35-44">>

KeyOrder(col) ==
    IF col = "plataforma" THEN Plataformas
    ELSE IF col = "tipo_campana" THEN Tipos
    ELSE Audiencias

Row(id, plat, tipo, aud, pres, imp, clk, conv, cost, rev, ctr, cr, cpc, cpa, roas) ==
    [campana_id |-> id, plataforma |-> plat, tipo_campana |-> tipo,
     audiencia_objetivo |-> aud, presupuesto_diario |-> pres,
     impresiones |-> imp, clicks |-> clk, conversiones |-> conv,
     costo_total |-> cost, revenue_generado |-> rev, ctr |-> ctr,
     conversion_rate |-> cr, cpc |-> cpc, cpa |-> cpa, roas |-> roas]

\* The rows a small dataset is made of.  Rows 1 and 2 are the two records
\* of the scenario with ROAS 2.0 and 8.0; the others add a tie in ROAS, a
\* zero revenue, amounts below one cent and missing cells.
Catalogue == <<
    Row("C001", "Facebook Ads", "Traffic", "18-24",
        100000, 1000, 50, 5, 50000, 100000, 5000, 2000, 1000, 10000, 2000),
    Row("C002", "Instagram Ads", "Conversion", "25-34",
        200000, 2000, 80, 8, 50000, 400000, 4000, 4000, 625, 6250, 8000),
    Row("C003", "Facebook Ads", "Awareness", "25-34",
        50000, 500, 10, 0, 0, 0, 2000, 0, 0, NaN, 8000),
    Row("C004", NA, "Traffic", "35-44",
        30004, 300, 6, 3, 20004, 0, 2000, 3000, 3334, 6668, 0),
    Row("C005", "TikTok Ads", NA, NA,
        NaN, NaN, 4, 1, NaN, 90003, NaN, 5000, NaN, NaN, NaN),
    Row(NA, "LinkedIn Ads", "Conversion", "18-24",
        80000, 800, 16, 4, 10005, 70005, 2000, 5005, 625, 2501, 6997)
>>

RECURSIVE SeqsUpTo(_, _)
\* every sequence of at most len elements of S
SeqsUpTo(S, len) ==
    IF len = 0 THEN {<<>>}
    ELSE LET shorter == SeqsUpTo(S, len - 1)
         IN  shorter \cup {Append(s, x) : s \in {t \in shorter : Len(t) = len - 1}, x \in S}

CatalogueRows == {Catalogue[i] : i \in 1..Len(Catalogue)}

\* the small datasets: any rows of the catalogue, in any order, repeated or not
SmallDatasets == SeqsUpTo(CatalogueRows, MaxLen)

\* a record whose ROAS is v, the other cells set from its position i
RankRow(i, v) ==
    Row(<<"R1", "R2", "R3", "R4", "R5", "R6", "R7", "R8">>[i],
        Plataformas[(i % 4) + 1], Tipos[(i % 3) + 1], Audiencias[(v % 3) + 1],
        10000 * i, 100 * i, 10 * i, i, 1000 * i, 1000 * i * v,
        2000, 3000, 100, 1000, v * Milli)

\* the datasets of RankLen records whose ROAS values are pairwise distinct:
\* every order of the values 1.0 .. RankLen.0
RankDatasets == {[i \in 1..RankLen |-> RankRow(i, p[i])] : p \in Permutations(1..RankLen)}

Datasets == SmallDatasets \cup RankDatasets

(***************************** pandas **************************************)
\* the index of the DataFrame: the positions of its rows, in order
AllRows(d) == [i \in 1..Len(d) |-> i]

RECURSIVE SumOf(_, _, _)
\* Series.sum(): the sum of the present cells of column c over the rows,
\* 0 when there is none
SumOf(d, rows, c) ==
    IF rows = <<>> THEN 0
    ELSE (IF IsNull(d[Head(rows)], c) THEN 0 ELSE d[Head(rows)][c])
         + SumOf(d, Tail(rows), c)

\* Series.count(): the number of present cells of column c over the rows
CountOf(d, rows, c) == Len(SelectSeq(rows, LAMBDA i : ~IsNull(d[i], c)))

\* MeanOf with a fault: the sum divided by the number of rows, missing
\* cells counted in
MeanOfAllRows(d, rows, c) ==
    IF CountOf(d, rows, c) = 0 THEN FNaN
    ELSE Num(SumOf(d, rows, c), Len(rows))

\* Series.mean(): the mean of the present cells, nan when there is none
MeanOf(d, rows, c) ==
    IF CountOf(d, rows, c) = 0 THEN FNaN
    ELSE Num(SumOf(d, rows, c), CountOf(d, rows, c))

RECURSIVE KeysAsMet(_, _, _)
\* the keys of the first i rows, each where the rows first show it
KeysAsMet(d, col, i) ==
    IF i = 0 THEN <<>>
    ELSE LET met == KeysAsMet(d, col, i - 1)
         IN  IF \/ d[i][col] = NA
                \/ \E j \in 1..Len(met) : met[j] = d[i][col]
             THEN met
             ELSE Append(met, d[i][col])

\* GroupKeys with a fault: the keys as groupby(col, sort=False) gives them
GroupKeysUnsorted(d, col) == KeysAsMet(d, col, Len(d))

\* df.groupby(col): the keys present in the column, sorted; rows whose key
\* is missing belong to no group
GroupKeys(d, col) ==
    SelectSeq(KeyOrder(col), LAMBDA k : \E i \in 1..Len(d) : d[i][col] = k)

GroupRows(d, col, k) == SelectSeq(AllRows(d), LAMBDA i : d[i][col] = k)

\* df.groupby(col)['roas'].mean(): one row per key
GroupMeans(d, col) ==
    LET keys == GroupKeys(d, col)
    IN  [j \in 1..Len(keys) |->
            [key |-> keys[j], mean |-> MeanOf(d, GroupRows(d, col, keys[j]), "roas")]]

\* positions of a series of means whose value is a number
Finite(s) == {j \in 1..Len(s) : IsNum(s[j].mean)}

RECURSIVE ArgBest(_, _, _, _)
\* scan of the series from position j: best is the position kept so far (0
\* for none); a later value replaces it only when strictly better, and a
\* nan never does
ArgBest(s, j, best, largest) ==
    IF j > Len(s) THEN best
    ELSE IF ~IsNum(s[j].mean) THEN ArgBest(s, j + 1, best, largest)
    ELSE IF \/ best = 0
            \/ largest /\ FLess(s[best].mean, s[j].mean)
            \/ ~largest /\ FLess(s[j].mean, s[best].mean)
         THEN ArgBest(s, j + 1, j, largest)
         ELSE ArgBest(s, j + 1, best, largest)

\* Series.idxmax() / idxmin() position: the first largest (smallest) number
ArgMax(s) == ArgBest(s, 1, 0, TRUE)
ArgMin(s) == ArgBest(s, 1, 0, FALSE)

\* Series.max() / min(): nan when no value is a number
SeriesMax(s) == IF Finite(s) = {} THEN FNaN ELSE s[ArgMax(s)].mean
SeriesMin(s) == IF Finite(s) = {} THEN FNaN ELSE s[ArgMin(s)].mean

(***************************** the report **********************************)
\* analisis_por_plataforma: one row per platform, sorted by platform
analisis_por_plataforma(d) ==
    LET keys == GroupKeys(d, "plataforma")
        g(k) == GroupRows(d, "plataforma", k)
    IN  [j \in 1..Len(keys) |->
            [key |-> keys[j],
             campanas |-> CountOf(d, g(keys[j]), "campana_id"),
             presupuesto |-> Round2Int(SumOf(d, g(keys[j]), "presupuesto_diario")),
             impresiones |-> SumOf(d, g(keys[j]), "impresiones"),
             clicks |-> SumOf(d, g(keys[j]), "clicks"),
             conversiones |-> SumOf(d, g(keys[j]), "conversiones"),
             costo |-> Round2Int(SumOf(d, g(keys[j]), "costo_total")),
             revenue |-> Round2Int(SumOf(d, g(keys[j]), "revenue_generado")),
             roas |-> Round2(MeanOf(d, g(keys[j]), "roas"))]]

\* analisis_por_tipo_campana: one row per campaign type
analisis_por_tipo_campana(d) ==
    LET keys == GroupKeys(d, "tipo_campana")
        g(k) == GroupRows(d, "tipo_campana", k)
    IN  [j \in 1..Len(keys) |->
            [key |-> keys[j],
             campanas |-> CountOf(d, g(keys[j]), "campana_id"),
             clicks |-> SumOf(d, g(keys[j]), "clicks"),
             conversiones |-> SumOf(d, g(keys[j]), "conversiones"),
             conversion_rate |-> Round2(MeanOf(d, g(keys[j]), "conversion_rate")),
             roas |-> Round2(MeanOf(d, g(keys[j]), "roas"))]]

\* analisis_por_edad: one row per audience bucket
analisis_por_edad(d) ==
    LET keys == GroupKeys(d, "audiencia_objetivo")
        g(k) == GroupRows(d, "audiencia_objetivo", k)
    IN  [j \in 1..Len(keys) |->
            [key |-> keys[j],
             campanas |-> CountOf(d, g(keys[j]), "campana_id"),
             conversiones |-> SumOf(d, g(keys[j]), "conversiones"),
             costo |-> Round2Int(SumOf(d, g(keys[j]), "costo_total")),
             revenue |-> Round2Int(SumOf(d, g(keys[j]), "revenue_generado")),
             roas |-> Round2(MeanOf(d, g(keys[j]), "roas"))]]

\* indicadores_clave: the KPI record; no check of the number of records
indicadores_clave(d) ==
    LET all == AllRows(d)
        costo == SumOf(d, all, "costo_total")
        revenue == SumOf(d, all, "revenue_generado")
    IN  [ctr |-> MeanOf(d, all, "ctr"),
         conversion_rate |-> MeanOf(d, all, "conversion_rate"),
         cpc |-> MeanOf(d, all, "cpc"),
         cpa |-> MeanOf(d, all, "cpa"),
         roas |-> MeanOf(d, all, "roas"),
         presupuesto_total |-> SumOf(d, all, "presupuesto_diario"),
         costo_total |-> costo,
         revenue_total |-> revenue,
         ganancia_neta |-> revenue - costo]

RECURSIVE InsertSortedUnstable(_, _, _, _, _)
\* InsertSorted with a fault: a row goes in front of the rows of equal value
InsertSortedUnstable(d, s, i, c, ascending) ==
    IF s = <<>> THEN <<i>>
    ELSE IF \/ ascending /\ d[i][c] <= d[Head(s)][c]
            \/ ~ascending /\ d[i][c] >= d[Head(s)][c]
         THEN <<i>> \o s
         ELSE <<Head(s)>> \o InsertSortedUnstable(d, Tail(s), i, c, ascending)

RECURSIVE InsertSorted(_, _, _, _, _)
\* place row i in the sorted rows s behind every row that does not have to
\* come after it: rows of equal value keep their input order
InsertSorted(d, s, i, c, ascending) ==
    IF s = <<>> THEN <<i>>
    ELSE IF \/ ascending /\ d[i][c] < d[Head(s)][c]
            \/ ~ascending /\ d[i][c] > d[Head(s)][c]
         THEN <<i>> \o s
         ELSE <<Head(s)>> \o InsertSorted(d, Tail(s), i, c, ascending)

RECURSIVE SortRows(_, _, _, _)
\* stable sort of the rows by column c
SortRows(d, rows, c, ascending) ==
    IF rows = <<>> THEN <<>>
    ELSE InsertSorted(d, SortRows(d, SubSeq(rows, 1, Len(rows) - 1), c, ascending),
                      rows[Len(rows)], c, ascending)

\* df.nlargest(k, c) / df.nsmallest(k, c), keep='first': the rows with a
\* value sorted, then the rows without one, cut to k rows; none for k <= 0.
\* The order of rows of equal value is the one pandas documents for
\* keep='first' (first occurrences first), whatever k is.
SelectN(d, k, c, ascending) ==
    IF k <= 0 THEN <<>>
    ELSE LET order == SortRows(d, SelectSeq(AllRows(d), LAMBDA i : ~IsNull(d[i], c)), c, ascending)
                      \o SelectSeq(AllRows(d), LAMBDA i : IsNull(d[i], c))
         IN  SubSeq(order, 1, IF k < Len(d) THEN k ELSE Len(d))

\* the six columns the rankings show, with the row's index label
Shown(d, rows) ==
    [j \in 1..Len(rows) |->
        [index |-> rows[j],
         campana_id |-> d[rows[j]].campana_id,
         plataforma |-> d[rows[j]].plataforma,
         tipo_campana |-> d[rows[j]].tipo_campana,
         roas |-> d[rows[j]].roas,
         revenue_generado |-> d[rows[j]].revenue_generado,
         costo_total |-> d[rows[j]].costo_total]]

\* campanas_bottom with a fault: nlargest where nsmallest is meant
campanas_bottom_largest(d, k) == Shown(d, SelectN(d, k, "roas", FALSE))

campanas_top(d, k) == Shown(d, SelectN(d, k, "roas", FALSE))
campanas_bottom(d, k) == Shown(d, SelectN(d, k, "roas", TRUE))

\* the columns in the order of the file
ColumnSeq == <<"campana_id", "plataforma", "tipo_campana", "audiencia_objetivo",
               "presupuesto_diario", "impresiones", "clicks", "conversiones",
               "costo_total", "revenue_generado", "ctr", "conversion_rate",
               "cpc", "cpa", "roas">>

\* Faltantes with a fault: notnull() where isnull() is meant
FaltantesPresent(d) ==
    [c \in Columns |-> Len(SelectSeq(AllRows(d), LAMBDA i : ~IsNull(d[i], c)))]

\* df.isnull().sum(): the missing cells of each column
Faltantes(d) ==
    [c \in Columns |-> Len(SelectSeq(AllRows(d), LAMBDA i : IsNull(d[i], c)))]

RECURSIVE SumCounts(_, _)
\* faltantes.sum()
SumCounts(f, cols) ==
    IF cols = <<>> THEN 0 ELSE f[Head(cols)] + SumCounts(f, Tail(cols))

\* validacion_datos: the total it returns
validacion_datos(d) == SumCounts(Faltantes(d), ColumnSeq)

\* idxmax() / idxmin() of a series of group means: ValueError on a series
\* without rows; on rows that are all nan, nan or (raises) ValueError,
\* by the version of pandas
IdxRaises(s, raises) == Len(s) = 0 \/ (Finite(s) = {} /\ raises)
IdxMaxLabel(s) == IF Finite(s) = {} THEN NA ELSE s[ArgMax(s)].key
IdxMinLabel(s) == IF Finite(s) = {} THEN NA ELSE s[ArgMin(s)].key

\* the margin of recomendaciones and generar_metricas_kpi
Margen(kpis) == Times100(Divide(kpis.ganancia_neta, kpis.revenue_total))

\* the two flags of recomendaciones: True on the [OK] branch
RoasSaludable(kpis) == GreaterThan(kpis.roas, RoasThreshold, Milli)
ConversionRespetable(kpis) == GreaterThan(kpis.conversion_rate, ConversionThreshold, Milli)

\* recomendaciones: the error it raises, if any, and what it reports
recomendaciones(d, kpis, raises) ==
    LET plat == GroupMeans(d, "plataforma")
        edad == GroupMeans(d, "audiencia_objetivo")
    IN  IF IdxRaises(plat, raises) \/ IdxRaises(edad, raises)
        THEN [error |-> "ValueError"]
        ELSE IF Raised(Margen(kpis))
        THEN [error |-> Margen(kpis).k]
        ELSE [error |-> "none",
              mejor_plataforma |-> IdxMaxLabel(plat), mejor_roas |-> SeriesMax(plat),
              peor_plataforma |-> IdxMinLabel(plat), peor_roas |-> SeriesMin(plat),
              mejor_edad |-> IdxMaxLabel(edad), mejor_edad_roas |-> SeriesMax(edad),
              peor_edad |-> IdxMinLabel(edad), peor_edad_roas |-> SeriesMin(edad),
              roas_ok |-> RoasSaludable(kpis),
              conversion_ok |-> ConversionRespetable(kpis),
              ganancia |-> kpis.ganancia_neta,
              margen |-> Margen(kpis)]

(***************************** main ****************************************)
NoDataFrame == [none |-> TRUE, rows |-> <<>>]
DataFrame(rows) == [none |-> FALSE, rows |-> rows]

NoKpis == indicadores_clave(<<>>)

NoOutput ==
    [plataformas |-> <<>>, tipos |-> <<>>, edades |-> <<>>, kpis |-> NoKpis,
     top |-> <<>>, bottom |-> <<>>, total_faltantes |-> 0,
     rec |-> [error |-> "not run"], margen |-> FNaN]

\* the file CSV_FILE: absent, without any line, or a header and rows
Files ==
    {[kind |-> "missing", rows |-> <<>>], [kind |-> "empty", rows |-> <<>>]}
    \cup {[kind |-> "csv", rows |-> d] : d \in Datasets}

Init ==
    /\ file \in Files
    /\ df = NoDataFrame
    /\ pc = "load_data"
    /\ n = 0
    /\ out = NoOutput
    /\ ran = <<>>
    /\ error = "none"

\* a call that returns: the next statement of main is reached
Return(step, next) ==
    /\ pc' = next
    /\ ran' = Append(ran, step)
    /\ error' = "none"

\* a call that raises: nothing in main catches it
Raise(step, exception) ==
    /\ pc' = "crashed"
    /\ ran' = Append(ran, step)
    /\ error' = exception

\* LoadData with a fault: main without the test of df against None
LoadDataUnchecked ==
    /\ pc = "load_data"
    /\ \/ /\ file.kind = "csv"
          /\ df' = DataFrame(file.rows)
          /\ Return("load_data", "analisis_general")
       \/ /\ file.kind = "missing"
          /\ df' = NoDataFrame
          /\ Return("load_data", "analisis_general")
       \/ /\ file.kind = "empty"
          /\ df' = NoDataFrame
          /\ Raise("load_data", "EmptyDataError")
    /\ UNCHANGED <<file, n, out>>

\* load_data, and the test of its result in main
LoadData ==
    /\ pc = "load_data"
    /\ \/ /\ file.kind = "csv"
          /\ df' = DataFrame(file.rows)
          /\ Return("load_data", "analisis_general")
       \/ /\ file.kind = "missing"
          /\ df' = NoDataFrame
          /\ Return("load_data", "done")
       \/ /\ file.kind = "empty"
          /\ df' = NoDataFrame
          /\ Raise("load_data", "EmptyDataError")
    /\ UNCHANGED <<file, n, out>>

AnalisisGeneral ==
    /\ pc = "analisis_general"
    /\ Return("analisis_general", "analisis_tipos_datos")
    /\ UNCHANGED <<file, df, n, out>>

AnalisisTiposDatos ==
    /\ pc = "analisis_tipos_datos"
    /\ Return("analisis_tipos_datos", "analisis_estadistico")
    /\ UNCHANGED <<file, df, n, out>>

AnalisisEstadistico ==
    /\ pc = "analisis_estadistico"
    /\ Return("analisis_estadistico", "analisis_por_plataforma")
    /\ UNCHANGED <<file, df, n, out>>

AnalisisPorPlataforma ==
    /\ pc = "analisis_por_plataforma"
    /\ out' = [out EXCEPT !.plataformas = analisis_por_plataforma(df.rows)]
    /\ Return("analisis_por_plataforma", "analisis_por_tipo_campana")
    /\ UNCHANGED <<file, df, n>>

AnalisisPorTipoCampana ==
    /\ pc = "analisis_por_tipo_campana"
    /\ out' = [out EXCEPT !.tipos = analisis_por_tipo_campana(df.rows)]
    /\ Return("analisis_por_tipo_campana", "analisis_por_edad")
    /\ UNCHANGED <<file, df, n>>

AnalisisPorEdad ==
    /\ pc = "analisis_por_edad"
    /\ out' = [out EXCEPT !.edades = analisis_por_edad(df.rows)]
    /\ Return("analisis_por_edad", "indicadores_clave")
    /\ UNCHANGED <<file, df, n>>

IndicadoresClave ==
    /\ pc = "indicadores_clave"
    /\ out' = [out EXCEPT !.kpis = indicadores_clave(df.rows)]
    /\ Return("indicadores_clave", "campanas_top")
    /\ UNCHANGED <<file, df, n>>

\* The columns of a file without rows have no numeric type, and nlargest
\* and nsmallest refuse such a column with TypeError; with typed columns
\* they return no rows.
CampanasTop ==
    /\ pc = "campanas_top"
    /\ n' = DefaultN
    /\ \/ /\ out' = [out EXCEPT !.top = campanas_top(df.rows, DefaultN)]
          /\ Return("campanas_top", "campanas_bottom")
       \/ /\ Len(df.rows) = 0
          /\ out' = out
          /\ Raise("campanas_top", "TypeError")
    /\ UNCHANGED <<file, df>>

CampanasBottom ==
    /\ pc = "campanas_bottom"
    /\ n' = DefaultN
    /\ \/ /\ out' = [out EXCEPT !.bottom = campanas_bottom(df.rows, DefaultN)]
          /\ Return("campanas_bottom", "validacion_datos")
       \/ /\ Len(df.rows) = 0
          /\ out' = out
          /\ Raise("campanas_bottom", "TypeError")
    /\ UNCHANGED <<file, df>>

ValidacionDatos ==
    /\ pc = "validacion_datos"
    /\ out' = [out EXCEPT !.total_faltantes = validacion_datos(df.rows)]
    /\ Return("validacion_datos", "recomendaciones")
    /\ UNCHANGED <<file, df, n>>

Recomendaciones ==
    /\ pc = "recomendaciones"
    /\ \E raises \in BOOLEAN :
          LET r == recomendaciones(df.rows, out.kpis, raises)
          IN  /\ out' = [out EXCEPT !.rec = r]
              /\ IF r.error = "none"
                 THEN Return("recomendaciones", "generar_graficas")
                 ELSE Raise("recomendaciones", r.error)
    /\ UNCHANGED <<file, df, n>>

\* The three chart steps: what matplotlib draws is not modelled, only the
\* values computed for it.
GenerarGraficas ==
    /\ pc = "generar_graficas"
    /\ Return("generar_graficas", "generar_metricas_kpi")
    /\ UNCHANGED <<file, df, n, out>>

GenerarMetricasKpi ==
    /\ pc = "generar_metricas_kpi"
    /\ out' = [out EXCEPT !.margen = Margen(out.kpis)]
    /\ IF Raised(Margen(out.kpis))
       THEN Raise("generar_metricas_kpi", Margen(out.kpis).k)
       ELSE Return("generar_metricas_kpi", "generar_comparativa_campanas")
    /\ UNCHANGED <<file, df, n>>

GenerarComparativaCampanas ==
    /\ pc = "generar_comparativa_campanas"
    /\ Return("generar_comparativa_campanas", "done")
    /\ UNCHANGED <<file, df, n, out>>

Next ==
    \/ LoadData
    \/ AnalisisGeneral
    \/ AnalisisTiposDatos
    \/ AnalisisEstadistico
    \/ AnalisisPorPlataforma
    \/ AnalisisPorTipoCampana
    \/ AnalisisPorEdad
    \/ IndicadoresClave
    \/ CampanasTop
    \/ CampanasBottom
    \/ ValidacionDatos
    \/ Recomendaciones
    \/ GenerarGraficas
    \/ GenerarMetricasKpi
    \/ GenerarComparativaCampanas

Spec == Init /\ [][Next]_vars

(***************************** the rankings on their own *******************)
\* campanas_top(df, n) and campanas_bottom(df, n) called with any n on any
\* small dataset
InitTopN ==
    /\ file \in {[kind |-> "csv", rows |-> d] : d \in SmallDatasets}
    /\ df = DataFrame(file.rows)
    /\ pc = "call_top"
    /\ n = 0
    /\ out = NoOutput
    /\ ran = <<>>
    /\ error = "none"

CallTop ==
    /\ pc = "call_top"
    /\ \E k \in -1..MaxN :
          /\ n' = k
          /\ out' = [out EXCEPT !.top = campanas_top(df.rows, k)]
    /\ Return("campanas_top", "call_bottom")
    /\ UNCHANGED <<file, df>>

CallBottom ==
    /\ pc = "call_bottom"
    /\ out' = [out EXCEPT !.bottom = campanas_bottom(df.rows, n)]
    /\ Return("campanas_bottom", "returned")
    /\ UNCHANGED <<file, df, n>>

NextTopN == CallTop \/ CallBottom

SpecTopN == InitTopN /\ [][NextTopN]_vars

(***************************** properties **********************************)
Last(s) == s[Len(s)]
Called(step) == \E j \in 1..Len(ran) : ran[j] = step
\* the call of step is the last one made, and it returned
Returned(step) == ran # <<>> /\ Last(ran) = step /\ error = "none"
\* the call of step is the last one made, whatever its outcome
JustCalled(step) == ran # <<>> /\ Last(ran) = step

RECURSIVE SetSum(_, _, _)
\* the sum of column c over a set of rows of d
SetSum(d, S, c) ==
    IF S = {} THEN 0
    ELSE LET i == CHOOSE x \in S : TRUE
         IN  d[i][c] + SetSum(d, S \ {i}, c)

PresentRows(d, c) == {i \in 1..Len(d) : ~IsNull(d[i], c)}

RECURSIVE TableSum(_, _)
\* the sum of one column of an aggregate table
TableSum(t, col) ==
    IF t = <<>> THEN 0 ELSE Head(t)[col] + TableSum(Tail(t), col)

\* C1: for every non-empty dataset and each of the three group keys, the
\* per-group sums of each sum-type metric add up to the sum of the metric
\* over the whole dataset, and the per-group counts add up to the number of
\* records.
C1_GroupSumsConserved ==
    (Called("analisis_por_edad") /\ Len(df.rows) > 0) =>
        LET d == df.rows
            total(c) == SetSum(d, PresentRows(d, c), c)
        IN  /\ TableSum(out.plataformas, "campanas") = Len(d)
            /\ TableSum(out.plataformas, "presupuesto") = total("presupuesto_diario")
            /\ TableSum(out.plataformas, "impresiones") = total("impresiones")
            /\ TableSum(out.plataformas, "clicks") = total("clicks")
            /\ TableSum(out.plataformas, "conversiones") = total("conversiones")
            /\ TableSum(out.plataformas, "costo") = total("costo_total")
            /\ TableSum(out.plataformas, "revenue") = total("revenue_generado")
            /\ TableSum(out.tipos, "campanas") = Len(d)
            /\ TableSum(out.tipos, "clicks") = total("clicks")
            /\ TableSum(out.tipos, "conversiones") = total("conversiones")
            /\ TableSum(out.edades, "campanas") = Len(d)
            /\ TableSum(out.edades, "conversiones") = total("conversiones")
            /\ TableSum(out.edades, "costo") = total("costo_total")
            /\ TableSum(out.edades, "revenue") = total("revenue_generado")

\* the mean of the stored values of column c is the float x: x is a number
\* with x * (how many are stored) = (their sum), or nan when none is stored
IsMeanOfStored(d, c, x) ==
    LET P == PresentRows(d, c)
    IN  IF P = {} THEN x = FNaN
        ELSE /\ IsNum(x)
             /\ x.num * Cardinality(P) = x.den * SetSum(d, P, c)

\* C2: the KPI record holds, for ctr, conversion_rate, cpc, cpa and roas,
\* the unweighted mean of the stored per-record ratios (on one record, the
\* record's own ratio), the sums of presupuesto_diario, costo_total and
\* revenue_generado, and ganancia_neta = revenue_total - costo_total.
C2_KpisAreMeansAndSums ==
    (Called("indicadores_clave") /\ Len(df.rows) > 0) =>
        LET d == df.rows
            k == out.kpis
        IN  /\ \A c \in {"ctr", "conversion_rate", "cpc", "cpa", "roas"} :
                  /\ IsMeanOfStored(d, c, k[c])
                  /\ (Len(d) = 1 /\ ~IsNull(d[1], c)) =>
                        (k[c].den = 1 /\ k[c].num = d[1][c])
            /\ k.presupuesto_total
                  = SetSum(d, PresentRows(d, "presupuesto_diario"), "presupuesto_diario")
            /\ k.costo_total = SetSum(d, PresentRows(d, "costo_total"), "costo_total")
            /\ k.revenue_total
                  = SetSum(d, PresentRows(d, "revenue_generado"), "revenue_generado")
            /\ k.ganancia_neta = k.revenue_total - k.costo_total

\* a dataset of several records, one of them without a stored ctr, whose
\* mean ctr is not the ctr of any single record
C2_Witness ==
    /\ Returned("indicadores_clave")
    /\ Len(df.rows) = 3
    /\ Cardinality(PresentRows(df.rows, "ctr")) = 2
    /\ IsNum(out.kpis.ctr)
    /\ \A i \in PresentRows(df.rows, "ctr") : out.kpis.ctr # Num(df.rows[i].ctr, 1)
    /\ out.kpis.ganancia_neta > 0

\* C3: indicadores_clave called on a dataset without records ends in an
\* EmptyDatasetError and not in a KPI record, and main goes on with the
\* step after it.
C3_EmptyDatasetError ==
    (JustCalled("indicadores_clave") /\ Len(df.rows) = 0) =>
        /\ error = "EmptyDatasetError"
        /\ pc = "campanas_top"

NonFinite(x) == x \in {FNaN, FInf, FNegInf}

\* C4: when revenue_total of the KPI record is 0 and recomendaciones gets
\* as far as its margin, the margin comes out as no number (nan or an
\* infinity), nothing is raised and main goes on with the next step; the
\* same holds of the margin of generar_metricas_kpi.
C4_ZeroRevenueMarginUndefined ==
    /\ (/\ JustCalled("recomendaciones")
        /\ out.kpis.revenue_total = 0
        /\ error # "ValueError") =>
            /\ error = "none"
            /\ NonFinite(out.rec.margen)
            /\ pc = "generar_graficas"
    /\ (JustCalled("generar_metricas_kpi") /\ out.kpis.revenue_total = 0) =>
            /\ error = "none"
            /\ NonFinite(out.margen)
            /\ pc = "generar_comparativa_campanas"

\* a run with records, no revenue and some cost that is past recomendaciones
C4_Witness ==
    /\ Returned("recomendaciones")
    /\ Len(df.rows) > 0
    /\ out.kpis.revenue_total = 0
    /\ out.kpis.costo_total > 0
    /\ out.rec.margen = FNegInf
    /\ pc = "generar_graficas"

AnalysisSteps ==
    {"analisis_general", "analisis_tipos_datos", "analisis_estadistico",
     "analisis_por_plataforma", "analisis_por_tipo_campana", "analisis_por_edad",
     "indicadores_clave", "campanas_top", "campanas_bottom", "validacion_datos",
     "recomendaciones", "generar_graficas", "generar_metricas_kpi",
     "generar_comparativa_campanas"}

\* C5: with the input file missing, load_data returns no dataset and main
\* ends without having called any analysis, KPI, ranking, validation,
\* recommendation or chart step; and such a step is only ever called after
\* load_data has returned a dataset.
C5_NoAnalysisWithoutLoad ==
    /\ (file.kind = "missing" /\ pc # "load_data") =>
            /\ df.none
            /\ pc = "done"
            /\ error = "none"
            /\ \A s \in AnalysisSteps : ~Called(s)
    /\ \A j \in 1..Len(ran) :
            ran[j] \in AnalysisSteps =>
                /\ ran[1] = "load_data"
                /\ j > 1
                /\ ~df.none
                /\ file.kind = "csv"
    /\ pc \in AnalysisSteps => (Called("load_data") /\ ~df.none)

C5_Witness ==
    /\ file.kind = "missing"
    /\ pc = "done"
    /\ ran = <<"load_data">>

Min(a, b) == IF a < b THEN a ELSE b

\* the ranking r of dataset d for argument k: min(k, len) rows (none for
\* k <= 0), each one a different row of d shown with its own cells, in
\* order of ROAS (descending unless ascending), rows of equal ROAS in input
\* order; rows without a ROAS come behind those with one; no row left out
\* would rank before a row taken
IsRanking(r, d, k, ascending) ==
    /\ Len(r) = (IF k <= 0 THEN 0 ELSE Min(k, Len(d)))
    /\ \A j \in 1..Len(r) :
          /\ r[j].index \in 1..Len(d)
          /\ \A c \in {"campana_id", "plataforma", "tipo_campana", "roas",
                       "revenue_generado", "costo_total"} :
                r[j][c] = d[r[j].index][c]
    /\ \A j, m \in 1..Len(r) : j < m =>
          /\ r[j].index # r[m].index
          /\ r[j].roas = NaN => r[m].roas = NaN
          /\ (r[j].roas # NaN /\ r[m].roas # NaN) =>
                /\ (IF ascending THEN r[j].roas <= r[m].roas
                                 ELSE r[j].roas >= r[m].roas)
                /\ (r[j].roas = r[m].roas => r[j].index < r[m].index)
          /\ (r[j].roas = NaN /\ r[m].roas = NaN) => r[j].index < r[m].index
    /\ \A j \in 1..Len(r) : \A i \in 1..Len(d) :
          (\A m \in 1..Len(r) : r[m].index # i) =>
              \/ d[i].roas = NaN
              \/ /\ r[j].roas # NaN
                 /\ (IF ascending THEN r[j].roas <= d[i].roas
                                  ELSE r[j].roas >= d[i].roas)

MeanGreater(d, c, t) ==
    LET P == PresentRows(d, c)
    IN  P # {} /\ SetSum(d, P, c) > t * 1000 * Cardinality(P)

\* C7: the healthy-ROAS flag of recomendaciones is raised exactly when the
\* mean ROAS is strictly greater than 5, and the respectable-conversion-rate
\* flag exactly when the mean conversion rate is strictly greater than 3: a
\* mean of exactly 5 (of exactly 3) takes the alert branch.
C7_FlagsStrictThresholds ==
    Returned("recomendaciones") =>
        /\ out.rec.roas_ok = MeanGreater(df.rows, "roas", 5)
        /\ out.rec.conversion_ok = MeanGreater(df.rows, "conversion_rate", 3)
        /\ out.kpis.roas = Num(5000, 1) => ~out.rec.roas_ok
        /\ out.kpis.conversion_rate = Num(3000, 1) => ~out.rec.conversion_ok

\* the dataset with ROAS 2.0 and 8.0, whose mean ROAS is exactly 5.0 and
\* whose mean conversion rate is exactly 3.0: both flags are down
C7_Witness ==
    /\ Returned("recomendaciones")
    /\ Len(df.rows) = 2
    /\ df.rows[1].roas = 2000
    /\ df.rows[2].roas = 8000
    /\ out.kpis.roas = Num(5000, 1)
    /\ out.kpis.conversion_rate = Num(3000, 1)
    /\ ~out.rec.roas_ok
    /\ ~out.rec.conversion_ok

\* the rows of group k of column col that store a ROAS
RoasRows(d, col, k) == {i \in 1..Len(d) : d[i][col] = k /\ d[i].roas # NaN}

\* group k has a mean ROAS that is at least (at most, for worst) the mean
\* ROAS of every other group of column col, and x is that mean
IsExtremeGroup(d, col, k, x, worst) ==
    LET mine == RoasRows(d, col, k)
        keys == {d[i][col] : i \in 1..Len(d)} \ {NA}
    IN  /\ k \in keys
        /\ mine # {}
        /\ IsNum(x)
        /\ x.num * Cardinality(mine) = x.den * SetSum(d, mine, "roas")
        /\ \A q \in keys : RoasRows(d, col, q) # {} =>
              LET theirs == RoasRows(d, col, q)
                  a == SetSum(d, mine, "roas") * Cardinality(theirs)
                  b == SetSum(d, theirs, "roas") * Cardinality(mine)
              IN  IF worst THEN a <= b ELSE a >= b

\* C8: for every non-empty dataset recomendaciones reports as best platform
\* a platform of the dataset whose mean ROAS is at least that of every
\* other platform, as worst platform one whose mean ROAS is at most that of
\* every other, likewise for the audience buckets, each with the mean ROAS
\* of the reported group.
C8_BestWorstGroups ==
    (JustCalled("recomendaciones") /\ Len(df.rows) > 0) =>
        /\ error = "none"
        /\ IsExtremeGroup(df.rows, "plataforma",
                          out.rec.mejor_plataforma, out.rec.mejor_roas, FALSE)
        /\ IsExtremeGroup(df.rows, "plataforma",
                          out.rec.peor_plataforma, out.rec.peor_roas, TRUE)
        /\ IsExtremeGroup(df.rows, "audiencia_objetivo",
                          out.rec.mejor_edad, out.rec.mejor_edad_roas, FALSE)
        /\ IsExtremeGroup(df.rows, "audiencia_objetivo",
                          out.rec.peor_edad, out.rec.peor_edad_roas, TRUE)

\* the missing cell of column c
Missing(c) == IF c \in StrCols THEN NA ELSE NaN

\* d with the cells of column c in the rows S replaced by missing cells
Inject(d, c, S) ==
    [i \in 1..Len(d) |-> IF i \in S THEN [d[i] EXCEPT ![c] = Missing(c)] ELSE d[i]]

\* the sets of rows tried for an injection: every set of rows of a small
\* dataset; all rows, and the first row alone, of a larger one
InjectionSets(d, P) ==
    IF Len(d) <= MaxLen THEN SUBSET P ELSE {P, P \cap {1}}

\* C9: validacion_datos does not fail and returns the number of missing
\* cells over all columns: 0 without missing cells; and replacing k present
\* cells of one column by missing ones raises the count of that column by
\* exactly k and the total by exactly k, the other counts staying as they
\* are.
C9_MissingCellsCounted ==
    JustCalled("validacion_datos") =>
        LET d == df.rows
            before == Faltantes(d)
        IN  /\ error = "none"
            /\ pc = "recomendaciones"
            /\ out.total_faltantes
                  = Cardinality({x \in (1..Len(d)) \X Columns : IsNull(d[x[1]], x[2])})
            /\ (\A i \in 1..Len(d) : \A c \in Columns : ~IsNull(d[i], c)) =>
                  out.total_faltantes = 0
            /\ \A c \in Columns : \A S \in InjectionSets(d, PresentRows(d, c)) :
                  LET e == Inject(d, c, S)
                  IN  /\ Faltantes(e) = [before EXCEPT ![c] = @ + Cardinality(S)]
                      /\ validacion_datos(e) = out.total_faltantes + Cardinality(S)

\* a dataset with missing cells, two of them in one column, and with
\* present cells left to replace
C9_Witness ==
    /\ Returned("validacion_datos")
    /\ Len(df.rows) = 3
    /\ Faltantes(df.rows)["roas"] = 2
    /\ PresentRows(df.rows, "roas") # {}
    /\ out.total_faltantes > 2

\* C10: on a dataset of at least 6 records with pairwise distinct ROAS, the
\* 3 records of campanas_top and the 3 records of campanas_bottom have no
\* record in common.
C10_TopBottomDisjoint ==
    LET d == df.rows
    IN  (/\ Returned("campanas_bottom")
         /\ Len(d) >= 6
         /\ \A i, j \in 1..Len(d) :
               d[i].roas # NaN /\ (i # j => d[i].roas # d[j].roas)) =>
            /\ Len(out.top) = 3
            /\ Len(out.bottom) = 3
            /\ {out.top[j].index : j \in 1..3} \cap {out.bottom[j].index : j \in 1..3} = {}

\* six records of distinct ROAS ranked both ways: the best is the last
\* record of the input and the worst is the first
C10_Witness ==
    /\ Returned("campanas_bottom")
    /\ Len(df.rows) = 6
    /\ \A i, j \in 1..6 : i # j => df.rows[i].roas # df.rows[j].roas
    /\ Len(out.top) = 3
    /\ Len(out.bottom) = 3
    /\ out.top[1].index = 6
    /\ out.bottom[1].index = 1

(***************************** order of the grouped tables *****************)
\* the first row of d whose key is k
FirstRow(d, col, k) ==
    CHOOSE i \in 1..Len(d) : d[i][col] = k /\ \A j \in 1..(i - 1) : d[j][col] # k

\* the place of key k in the sorted keys of the column
Rank(col, k) == CHOOSE p \in 1..Len(KeyOrder(col)) : KeyOrder(col)[p] = k

\* every row of table t has a key that some row of d has
KeysOfDataset(t, d, col) ==
    \A j \in 1..Len(t) : \E i \in 1..Len(d) : d[i][col] = t[j].key

\* the rows of t follow the order in which d first shows their keys
InFirstOccurrenceOrder(t, d, col) ==
    /\ KeysOfDataset(t, d, col)
    /\ \A j, m \in 1..Len(t) : j < m =>
          FirstRow(d, col, t[j].key) < FirstRow(d, col, t[m].key)

\* the rows of t follow the ascending order of their keys
InKeyOrder(t, d, col) ==
    /\ KeysOfDataset(t, d, col)
    /\ \A j, m \in 1..Len(t) : j < m => Rank(col, t[j].key) < Rank(col, t[m].key)

\* C11 as stated: the rows of the tables by platform, campaign type and
\* audience bucket appear in the order in which each key value first occurs
\* in the dataset.
C11_TablesInFirstOccurrenceOrder ==
    /\ Called("analisis_por_plataforma") =>
          InFirstOccurrenceOrder(out.plataformas, df.rows, "plataforma")
    /\ Called("analisis_por_tipo_campana") =>
          InFirstOccurrenceOrder(out.tipos, df.rows, "tipo_campana")
    /\ Called("analisis_por_edad") =>
          InFirstOccurrenceOrder(out.edades, df.rows, "audiencia_objetivo")

\* C11 as the code has it: the rows of the tables by platform, campaign
\* type and audience bucket appear in ascending order of their key value,
\* wherever the keys occur in the dataset.
C11_TablesInKeyOrder ==
    /\ Called("analisis_por_plataforma") =>
          InKeyOrder(out.plataformas, df.rows, "plataforma")
    /\ Called("analisis_por_tipo_campana") =>
          InKeyOrder(out.tipos, df.rows, "tipo_campana")
    /\ Called("analisis_por_edad") =>
          InKeyOrder(out.edades, df.rows, "audiencia_objetivo")

\* the rows of t do not follow the order in which d first shows their keys
OutOfFirstOccurrenceOrder(t, d, col) ==
    \E j, m \in 1..Len(t) :
        j < m /\ FirstRow(d, col, t[m].key) < FirstRow(d, col, t[j].key)

\* the three tables of a dataset that shows Instagram before Facebook, and
\* some campaign type and some audience bucket before one that sorts lower:
\* every table lists the lower key first
C11_Witness ==
    /\ Returned("analisis_por_edad")
    /\ Len(df.rows) >= 2
    /\ df.rows[1].plataforma = "Instagram Ads"
    /\ df.rows[2].plataforma = "Facebook Ads"
    /\ Len(out.plataformas) = 2
    /\ out.plataformas[1].key = "Facebook Ads"
    /\ out.plataformas[2].key = "Instagram Ads"
    /\ OutOfFirstOccurrenceOrder(out.tipos, df.rows, "tipo_campana")
    /\ OutOfFirstOccurrenceOrder(out.edades, df.rows, "audiencia_objetivo")

====
